---- MODULE Spec2Model ----
(***************************************************************************)
(* Model of tensorflow/core/tpu/kernels/tpu_op_util.cc: the derivation of  *)
(* a TPU compilation cache key (CreateCompilationCacheKey, both overloads),*)
(* its two string encoders (CreateShapePrefix, CreateConfigPrefix) and the *)
(* lazily evaluated, memoised guaranteed-constant fingerprint callback.    *)
(*                                                                         *)
(* Strings are TLA+ strings; absl::StrAppend is \o.  A tensor is modelled  *)
(* by its raw bytes (tensor_data()), abstracted to a small integer.        *)
(***************************************************************************)
EXTENDS Integers, Sequences, FiniteSets, TLC

VARIABLES
    in,            \* the caller's inputs, shared by both overloads
    cpc,           \* [Forms -> position of that overload's call]
    frame,         \* [Forms -> locals of the call: prefixes, ids, pointer, result]
    nativeArgs,    \* [Forms -> CompilationCacheKeyProperty values handed to the native primitive]
    buffers,       \* [Forms -> state of the native result buffers]
    destroyCalls,  \* [Forms -> number of TpuCompile_DestroyCompilationCacheKey calls]
    key,           \* [Forms -> the TpuCompilationCacheKey being built / returned]
    fingerprint,   \* [Forms -> the string captured (by copy, mutable) in the key's lambda]
    hashLog,       \* [Forms -> rolling-hash invocations made on behalf of that key]
    computations,  \* [Forms -> number of GuaranteedConstFingerprint evaluations]
    started,       \* [Forms -> number of guaranteed_const_fingerprint() calls begun]
    returns,       \* [Forms -> strings returned by the completed calls, in order]
    raced,         \* [Forms -> an unsynchronised conflicting access to `fingerprint` happened]
    callers,       \* the threads that exist
    tpc,           \* [Threads -> position inside guaranteed_const_fingerprint()]
    tkey,          \* [Threads -> the key whose callback the thread is running]
    tlocal,        \* [Threads -> the temporary returned by GuaranteedConstFingerprint]
    ti,            \* [Threads -> the loop index i of GuaranteedConstFingerprint, from 1]
    tacc,          \* [Threads -> the accumulator `fingerprint` of GuaranteedConstFingerprint]
    alive,         \* the caller still keeps metadata and the constants alive
    dangled,       \* [Forms -> the key's callback read them after they were destroyed]
    argA, argB,    \* inputs of the encoder under study (pure-function specifications)
    outA, outB     \* their encodings

vars == <<in, cpc, frame, nativeArgs, buffers, destroyCalls, key, fingerprint,
          hashLog, computations, started, returns, raced, callers, tpc, tkey,
          tlocal, ti, tacc, alive, dangled, argA, argB, outA, outB>>

machineVars == <<in, cpc, frame, nativeArgs, buffers, destroyCalls, key,
                 fingerprint, hashLog, computations, started, returns, raced,
                 callers, tpc, tkey, tlocal, ti, tacc, alive, dangled>>

(***************************************************************************)
(* Bounds of the model.                                                    *)
(***************************************************************************)
MaxShapeWeight == 4   \* shapes + dimensions in a dynamic-shape sequence
MaxArgs == 2          \* arguments in a metadata.args() sequence
MaxConstants == 2     \* guaranteed constants
MaxTensorData == 2    \* distinct tensor contents
MaxCalls == 2         \* guaranteed_const_fingerprint() calls per key
HashModulus == 1009   \* range of the stand-in rolling hash

NotYet == "<not computed>"

(***************************************************************************)
(* Decimal rendering: std::to_string(uint64_t) and absl::StrAppend of an   *)
(* integer (AlphaNum) both print base-10 digits, with '-' for negatives.   *)
(***************************************************************************)
Digit(d) == SubSeq("0123456789", d + 1, d + 1)

RECURSIVE DecimalDigits(_)
DecimalDigits(n) ==
    IF n < 10 THEN Digit(n) ELSE DecimalDigits(n \div 10) \o Digit(n % 10)

DecimalString(n) == IF n < 0 THEN "-" \o DecimalDigits(0 - n) ELSE DecimalDigits(n)

(***************************************************************************)
(* CreateShapePrefix: for each shape, each dim size followed by ",", then  *)
(* ";" after the shape.                                                    *)
(***************************************************************************)
RECURSIVE AppendDimSizes(_, _)
AppendDimSizes(prefix, dim_sizes) ==
    IF dim_sizes = <<>> THEN prefix
    ELSE AppendDimSizes(prefix \o DecimalString(Head(dim_sizes)) \o ",", Tail(dim_sizes))

RECURSIVE AppendShapesNoTerminator(_, _)
AppendShapesNoTerminator(shapes_prefix, dynamic_shapes) ==
    IF dynamic_shapes = <<>> THEN shapes_prefix
    ELSE AppendShapesNoTerminator(AppendDimSizes(shapes_prefix, Head(dynamic_shapes)),
                                  Tail(dynamic_shapes))

RECURSIVE AppendShapes(_, _)
AppendShapes(shapes_prefix, dynamic_shapes) ==
    IF dynamic_shapes = <<>> THEN shapes_prefix
    ELSE AppendShapes(AppendDimSizes(shapes_prefix, Head(dynamic_shapes)) \o ";",
                      Tail(dynamic_shapes))

CreateShapePrefixNoTerminator(dynamic_shapes) == AppendShapesNoTerminator("", dynamic_shapes)

CreateShapePrefix(dynamic_shapes) == AppendShapes("", dynamic_shapes)

(***************************************************************************)
(* CreateConfigPrefix.  An argument is a record                            *)
(*   [is_same_data_across_replicas, enable_xla_sharding,                   *)
(*    unrestricted_layout, dtype, has_shape, shape].                       *)
(***************************************************************************)
EnableXlaSharding == {"DISALLOWED", "TENTATIVE", "ALLOWED"}

EncodeArg(arg) ==
    (IF arg.is_same_data_across_replicas THEN ":s" ELSE ":")
    \o (IF arg.enable_xla_sharding = "ALLOWED" THEN "e" ELSE "")
    \o (IF arg.unrestricted_layout THEN ":u" ELSE "")
    \o ",type(" \o DecimalString(arg.dtype) \o ")"
    \o (IF arg.has_shape
        THEN AppendDimSizes(",shape(", arg.shape) \o ")"
        ELSE "")

RECURSIVE AppendArgs(_, _)
AppendArgs(config_prefix, args) ==
    IF args = <<>> THEN config_prefix
    ELSE AppendArgs(config_prefix \o EncodeArg(Head(args)), Tail(args))

CreateConfigPrefix(args) == AppendArgs("", args)

(***************************************************************************)
(* GuaranteedConstFingerprint.  The rolling hash                           *)
(* TpuCompile_CreateGuaranteedConstFingerprint is an external primitive:   *)
(* a deterministic mixing function of (seed, bytes).                       *)
(***************************************************************************)
TpuCompile_CreateGuaranteedConstFingerprint(seed, data) ==
    (seed * 31 + data) % HashModulus

\* The metadata's string is taken to be empty whatever it holds.
MetadataFingerprintNeverUsed(fingerprint_in_metadata) == TRUE

\* Line 30: fingerprint_in_metadata.empty().
MetadataFingerprintEmpty(fingerprint_in_metadata) == fingerprint_in_metadata = ""

(***************************************************************************)
(* The native key-construction primitive is external and opaque: a         *)
(* deterministic function of the property record, returning two buffers.   *)
(***************************************************************************)
TpuCompile_CreateCompilationCacheKey(property) ==
    [key |-> <<"key", property>>, debug_string |-> <<"debug", property>>]

(***************************************************************************)
(* Flattening of the device assignment, row-major.                         *)
(***************************************************************************)
RECURSIVE FlattenDevices(_, _)
FlattenDevices(flattened_device_ids, computation_devices) ==
    IF computation_devices = <<>> THEN flattened_device_ids
    ELSE FlattenDevices(flattened_device_ids \o Head(computation_devices),
                        Tail(computation_devices))

(***************************************************************************)
(* Inputs.                                                                 *)
(***************************************************************************)
Forms == {"raw", "list"}      \* pointer+count form, OpInputList form
Threads == {"main", "worker"}
Main == "main"                \* the thread that calls CreateCompilationCacheKey

TensorData == 1..MaxTensorData

RECURSIVE SeqsUpTo(_, _)
SeqsUpTo(S, n) ==
    IF n = 0 THEN {<<>>}
    ELSE LET shorter == SeqsUpTo(S, n - 1)
         IN  shorter \cup {Append(s, x) : s \in shorter, x \in S}

ConstantSeqs == SeqsUpTo(TensorData, MaxConstants)

\* What a read through a pointer can meet besides a tensor of the caller:
\* the bytes of some other object, or no mapped memory at all.
ForeignData == MaxTensorData + 1
Unmapped == MaxTensorData + 2
Garbage == "<garbage>"
UnmappedString == "<unmapped>"

\* The OpInputList form takes &list[0] (line 165) and the callback indexes
\* that pointer as an array (line 33).  The list need not store its tensors
\* contiguously, so what lies at (&list[0]) + i for i >= 1 is whatever the
\* memory holds there: list[i] when the layout happens to be contiguous.
MemoryBeyondFirst(list) ==
    IF Len(list) <= 1 THEN {<<>>}
    ELSE [1..(Len(list) - 1) -> TensorData \cup {ForeignData, Unmapped}]

PlainArg == [is_same_data_across_replicas |-> FALSE, enable_xla_sharding |-> "DISALLOWED",
             unrestricted_layout |-> FALSE, dtype |-> 3, has_shape |-> FALSE,
             shape |-> <<>>]

SharedArg == [is_same_data_across_replicas |-> TRUE, enable_xla_sharding |-> "ALLOWED",
              unrestricted_layout |-> TRUE, dtype |-> 1, has_shape |-> TRUE,
              shape |-> <<2, 3>>]

Requests ==
    { [dynamic_shapes |-> <<>>, args |-> <<PlainArg>>,
       has_device_assignment |-> FALSE, computation_devices |-> <<>>,
       num_cores_per_replica |-> 1, num_replicas |-> 1],
      [dynamic_shapes |-> << <<2, 3>>, <<>> >>, args |-> <<SharedArg, PlainArg>>,
       has_device_assignment |-> TRUE, computation_devices |-> << <<0, 1>>, <<2, 3>> >>,
       num_cores_per_replica |-> 2, num_replicas |-> 2] }

InputsWith(cs) ==
    { [function_name |-> "matmul_fn", function_library_fingerprint |-> 42,
       mlir_module |-> "module", mesh_state |-> "mesh",
       guaranteed_constants |-> cs, raw_pointer_null |-> pn,
       beyond_first |-> bf,
       dynamic_shapes |-> rq.dynamic_shapes,
       metadata |-> [args |-> rq.args,
                     guaranteed_const_fingerprint |-> fp,
                     session_handle |-> sh,
                     has_device_assignment |-> rq.has_device_assignment,
                     computation_devices |-> rq.computation_devices,
                     num_cores_per_replica |-> rq.num_cores_per_replica,
                     num_replicas |-> rq.num_replicas]] :
      bf \in MemoryBeyondFirst(cs), pn \in BOOLEAN, fp \in {"", "abc123"},
      sh \in {"", "session_1"}, rq \in Requests }

Inputs == UNION {InputsWith(cs) : cs \in ConstantSeqs}

\* A null pointer denotes no array at all: it only goes with a count of zero.
ValidInputs == {i \in Inputs : i.raw_pointer_null => i.guaranteed_constants = <<>>}

NoFrame == [guaranteed_constants |-> "unbound", guaranteed_constants_size |-> 0,
            shapes_prefix |-> NotYet, config_prefix |-> NotYet,
            flattened_device_ids |-> <<>>, result |-> NotYet]

NoProperty == "<no call>"

\* A default-constructed TpuCompilationCacheKey.
EmptyKey == [prefix |-> "", debug_string |-> "", has_guaranteed_const |-> FALSE,
             session_handle |-> "", guaranteed_const_fingerprint |-> "unset"]

Torn == "<torn read>"

\* The inputs that differ in what the fingerprint callback reads.
CallbackInputs ==
    {i \in ValidInputs : i.metadata.session_handle = "session_1" /\ i.dynamic_shapes = <<>>}

MachineInit(threads, inputs) ==
    /\ in \in inputs
    /\ cpc = [f \in Forms |-> "start"]
    /\ frame = [f \in Forms |-> NoFrame]
    /\ nativeArgs = [f \in Forms |-> NoProperty]
    /\ buffers = [f \in Forms |-> "none"]
    /\ destroyCalls = [f \in Forms |-> 0]
    /\ key = [f \in Forms |-> EmptyKey]
    /\ fingerprint = [f \in Forms |-> ""]
    /\ hashLog = [f \in Forms |-> <<>>]
    /\ computations = [f \in Forms |-> 0]
    /\ started = [f \in Forms |-> 0]
    /\ returns = [f \in Forms |-> <<>>]
    /\ raced = [f \in Forms |-> FALSE]
    /\ callers = threads
    /\ tpc = [t \in Threads |-> "idle"]
    /\ tkey = [t \in Threads |-> "raw"]
    /\ tlocal = [t \in Threads |-> ""]
    /\ ti = [t \in Threads |-> 1]
    /\ tacc = [t \in Threads |-> 0]
    /\ alive = TRUE
    /\ dangled = [f \in Forms |-> FALSE]

PureIdle == argA = <<>> /\ argB = <<>> /\ outA = NotYet /\ outB = NotYet

(***************************************************************************)
(* CreateCompilationCacheKey, step by step.  The main thread runs one call *)
(* at a time; it is busy while a call is between entry and return or while *)
(* it is itself inside a fingerprint callback.                             *)
(***************************************************************************)
InCall(f) == cpc[f] \notin {"start", "returned"}

\* No thread has brought the process down.
Running == \A t \in Threads : tpc[t] # "crashed"

MainFree == Running /\ tpc[Main] = "idle" /\ \A f \in Forms : ~InCall(f)

createUnchanged == <<in, fingerprint, hashLog, computations, started, returns,
                     raced, callers, tpc, tkey, tlocal, ti, tacc, alive, dangled,
                     argA, argB, outA, outB>>

\* The caller invokes the pointer+count form directly (lines 92-98).
CallRaw ==
    /\ MainFree
    /\ cpc["raw"] = "start"
    /\ frame' = [frame EXCEPT !["raw"] =
                    [@ EXCEPT !.guaranteed_constants =
                                  IF in.raw_pointer_null THEN "nullptr" ELSE "array",
                              !.guaranteed_constants_size = Len(in.guaranteed_constants)]]
    /\ cpc' = [cpc EXCEPT !["raw"] = "entered"]
    /\ UNCHANGED <<nativeArgs, buffers, destroyCalls, key>>
    /\ UNCHANGED createUnchanged

\* The forwarding drops the array and always passes nullptr.
ForwardedPointerAlwaysNull(guaranteed_constants) == "nullptr"

\* The OpInputList form forwards &list[0] or nullptr, and list.size() (lines 163-166).
ForwardedPointer(guaranteed_constants) ==
    IF Len(guaranteed_constants) > 0 THEN "array" ELSE "nullptr"

ForwardedSize(guaranteed_constants) == Len(guaranteed_constants)

CallList ==
    /\ MainFree
    /\ cpc["list"] = "start"
    /\ frame' = [frame EXCEPT !["list"] =
                    [@ EXCEPT !.guaranteed_constants =
                                  ForwardedPointer(in.guaranteed_constants),
                              !.guaranteed_constants_size =
                                  ForwardedSize(in.guaranteed_constants)]]
    /\ cpc' = [cpc EXCEPT !["list"] = "entered"]
    /\ UNCHANGED <<nativeArgs, buffers, destroyCalls, key>>
    /\ UNCHANGED createUnchanged

\* Lines 99-112: the two prefixes and the flattened device ids.
EncodePrefixes(f) ==
    /\ Running /\ cpc[f] = "entered"
    /\ frame' = [frame EXCEPT ![f] =
                    [@ EXCEPT !.shapes_prefix = CreateShapePrefix(in.dynamic_shapes),
                              !.config_prefix = CreateConfigPrefix(in.metadata.args),
                              !.flattened_device_ids =
                                  IF in.metadata.has_device_assignment
                                  THEN FlattenDevices(<<>>, in.metadata.computation_devices)
                                  ELSE <<>>]]
    /\ cpc' = [cpc EXCEPT ![f] = "encoded"]
    /\ UNCHANGED <<nativeArgs, buffers, destroyCalls, key>>
    /\ UNCHANGED createUnchanged

CompilationCacheKeyProperty(f) ==
    [config_prefix |-> frame[f].config_prefix,
     shapes_prefix |-> frame[f].shapes_prefix,
     function_name |-> in.function_name,
     mlir_module |-> in.mlir_module,
     device_ids |-> frame[f].flattened_device_ids,
     device_ids_size |-> Len(frame[f].flattened_device_ids),
     guaranteed_constants_size |-> frame[f].guaranteed_constants_size,
     function_library_fingerprint |-> in.function_library_fingerprint,
     num_cores_per_replica |-> in.metadata.num_cores_per_replica,
     num_replicas |-> in.metadata.num_replicas,
     mesh_state |-> in.mesh_state]

\* Lines 113-128: the native call allocates the result buffers; the cleanup
\* object that will destroy them is armed.
CallNative(f) ==
    /\ Running /\ cpc[f] = "encoded"
    /\ nativeArgs' = [nativeArgs EXCEPT ![f] = CompilationCacheKeyProperty(f)]
    /\ frame' = [frame EXCEPT ![f].result =
                    TpuCompile_CreateCompilationCacheKey(CompilationCacheKeyProperty(f))]
    /\ buffers' = [buffers EXCEPT ![f] = "live"]
    /\ cpc' = [cpc EXCEPT ![f] = "called"]
    /\ UNCHANGED <<destroyCalls, key>>
    /\ UNCHANGED createUnchanged

\* Lines 129-131: a fresh key receives copies of the two strings.
CopyStrings(f) ==
    /\ Running /\ cpc[f] = "called"
    /\ key' = [key EXCEPT ![f] = [EmptyKey EXCEPT !.prefix = frame[f].result.key,
                                                 !.debug_string = frame[f].result.debug_string]]
    /\ cpc' = [cpc EXCEPT ![f] = "copied"]
    /\ UNCHANGED <<frame, nativeArgs, buffers, destroyCalls>>
    /\ UNCHANGED createUnchanged

HasConstants(f) ==
    frame[f].guaranteed_constants # "nullptr" /\ frame[f].guaranteed_constants_size > 0

RECURSIVE EagerLoop(_, _, _, _)
EagerLoop(i, acc, calls, guaranteed_constants) ==
    IF i > Len(guaranteed_constants) THEN [fingerprint |-> acc, calls |-> calls]
    ELSE EagerLoop(
             i + 1,
             TpuCompile_CreateGuaranteedConstFingerprint(acc, guaranteed_constants[i]),
             Append(calls, [seed |-> acc, data |-> guaranteed_constants[i]]),
             guaranteed_constants)

EagerFingerprint(fingerprint_in_metadata, guaranteed_constants) ==
    IF fingerprint_in_metadata = ""
    THEN LET r == EagerLoop(1, 0, <<>>, guaranteed_constants)
         IN  [value |-> DecimalString(r.fingerprint), calls |-> r.calls]
    ELSE [value |-> fingerprint_in_metadata, calls |-> <<>>]

\* The constants are fingerprinted while the key is built.
AttachFingerprintEager(f) ==
    /\ Running /\ cpc[f] = "copied"
    /\ LET r == EagerFingerprint(in.metadata.guaranteed_const_fingerprint,
                                 in.guaranteed_constants)
       IN  IF HasConstants(f)
           THEN /\ key' = [key EXCEPT ![f].has_guaranteed_const = TRUE,
                                      ![f].session_handle = in.metadata.session_handle,
                                      ![f].guaranteed_const_fingerprint = "attached"]
                /\ fingerprint' = [fingerprint EXCEPT ![f] = r.value]
                /\ hashLog' = [hashLog EXCEPT ![f] = @ \o r.calls]
                /\ computations' = [computations EXCEPT ![f] = @ + 1]
           ELSE UNCHANGED <<key, fingerprint, hashLog, computations>>
    /\ cpc' = [cpc EXCEPT ![f] = "attached"]
    /\ UNCHANGED <<frame, nativeArgs, buffers, destroyCalls>>
    /\ UNCHANGED <<in, started, returns, raced, callers, tpc, tkey, tlocal, ti, tacc,
                   alive, dangled, argA, argB, outA, outB>>

\* The flag and the callback are set whatever the constants are.
AttachFingerprintAlways(f) ==
    /\ Running /\ cpc[f] = "copied"
    /\ key' = [key EXCEPT ![f].has_guaranteed_const = TRUE,
                          ![f].session_handle = in.metadata.session_handle,
                          ![f].guaranteed_const_fingerprint = "attached"]
    /\ fingerprint' = [fingerprint EXCEPT ![f] = ""]
    /\ cpc' = [cpc EXCEPT ![f] = "attached"]
    /\ UNCHANGED <<frame, nativeArgs, buffers, destroyCalls>>
    /\ UNCHANGED <<in, hashLog, computations, started, returns, raced, callers, tpc,
                   tkey, tlocal, ti, tacc, alive, dangled, argA, argB, outA, outB>>

\* Lines 135-153: with constants present the flag, the session handle and the
\* callback (capturing an empty `fingerprint` by copy) are set; nothing is hashed.
AttachFingerprint(f) ==
    /\ Running /\ cpc[f] = "copied"
    /\ IF HasConstants(f)
       THEN /\ key' = [key EXCEPT ![f].has_guaranteed_const = TRUE,
                                  ![f].session_handle = in.metadata.session_handle,
                                  ![f].guaranteed_const_fingerprint = "attached"]
            /\ fingerprint' = [fingerprint EXCEPT ![f] = ""]
       ELSE UNCHANGED <<key, fingerprint>>
    /\ cpc' = [cpc EXCEPT ![f] = "attached"]
    /\ UNCHANGED <<frame, nativeArgs, buffers, destroyCalls>>
    /\ UNCHANGED <<in, hashLog, computations, started, returns, raced, callers, tpc,
                   tkey, tlocal, ti, tacc, alive, dangled, argA, argB, outA, outB>>

\* The return forgets to run the cleanup.
ReturnKeyLeaking(f) ==
    /\ Running /\ cpc[f] = "attached"
    /\ cpc' = [cpc EXCEPT ![f] = "returned"]
    /\ UNCHANGED <<frame, nativeArgs, key, buffers, destroyCalls>>
    /\ UNCHANGED createUnchanged

\* Line 154 and the end of scope: the key is returned and buffer_cleanup's
\* destructor calls TpuCompile_DestroyCompilationCacheKey(result).
ReturnKey(f) ==
    /\ Running /\ cpc[f] = "attached"
    /\ buffers' = [buffers EXCEPT ![f] = "released"]
    /\ destroyCalls' = [destroyCalls EXCEPT ![f] = @ + 1]
    /\ cpc' = [cpc EXCEPT ![f] = "returned"]
    /\ UNCHANGED <<frame, nativeArgs, key>>
    /\ UNCHANGED createUnchanged

(***************************************************************************)
(* The caller ends the lifetime of metadata and of the constants.  The     *)
(* lambda holds them by reference and by pointer (line 143), and lines     *)
(* 138-141 assume that they outlive every lookup; nothing enforces it.     *)
(***************************************************************************)
DestroyInputs ==
    /\ MainFree /\ alive
    /\ \A f \in Forms : cpc[f] = "returned"
    /\ alive' = FALSE
    /\ UNCHANGED <<in, cpc, frame, nativeArgs, buffers, destroyCalls, key, fingerprint,
                   hashLog, computations, started, returns, raced, callers, tpc, tkey,
                   tlocal, ti, tacc, dangled, argA, argB, outA, outB>>

(***************************************************************************)
(* key.guaranteed_const_fingerprint(): the lambda of lines 143-152, run by *)
(* thread t on key k, and GuaranteedConstFingerprint (lines 27-42) inside  *)
(* it.  Nothing is locked, so every access to the captured `fingerprint`   *)
(* and every call of the rolling hash is a step of its own.  An assignment *)
(* made while another thread is inside a call on the same key is a data    *)
(* race; after it a read of `fingerprint` may yield anything the build     *)
(* produces.  A read through a dangling reference or beyond the object a   *)
(* pointer points to yields what the memory holds, or kills the process.   *)
(***************************************************************************)
Busy(t) == tpc[t] # "idle"

\* Another thread is inside a call on k.
OtherInFlight(t, k) == \E u \in callers \ {t} : Busy(u) /\ tkey[u] = k

threadUnchanged == <<in, cpc, frame, nativeArgs, buffers, destroyCalls, key,
                     callers, alive, argA, argB, outA, outB>>

\* What guaranteed_constants[i] (0-based i - 1) denotes for key k.
PointedAt(k, i) ==
    IF k = "list" /\ i > 1 THEN in.beyond_first[i - 1] ELSE in.guaranteed_constants[i]

\* constant.tensor_data() at lines 33-36.
ReadConstant(k, i) ==
    IF alive THEN {PointedAt(k, i)} ELSE {PointedAt(k, i), ForeignData, Unmapped}

\* metadata.guaranteed_const_fingerprint() at line 148.  Through a dangling
\* reference the read yields the old string, an empty string (the storage was
\* zeroed or reused by a metadata without fingerprint), some other string, or
\* it hits unmapped memory.
ReadMetadataFingerprint ==
    IF alive THEN {in.metadata.guaranteed_const_fingerprint}
    ELSE {in.metadata.guaranteed_const_fingerprint, "", Garbage, UnmappedString}

\* Line 146: the call begins by testing fingerprint.empty().
CheckEmpty(t, k) ==
    /\ Running /\ t \in callers /\ ~Busy(t)
    /\ t = Main => MainFree
    /\ cpc[k] = "returned" /\ key[k].guaranteed_const_fingerprint = "attached"
    /\ started[k] < MaxCalls
    /\ \E empty \in (IF raced[k] THEN BOOLEAN ELSE {fingerprint[k] = ""}) :
           tpc' = [tpc EXCEPT ![t] = IF empty THEN "call" ELSE "ret"]
    /\ tkey' = [tkey EXCEPT ![t] = k]
    /\ started' = [started EXCEPT ![k] = @ + 1]
    /\ UNCHANGED <<fingerprint, hashLog, computations, returns, raced, tlocal, ti, tacc,
                   dangled>>
    /\ UNCHANGED threadUnchanged

\* Lines 147-148 and 30-31, 40: GuaranteedConstFingerprint is entered with the
\* metadata's string; a non-empty one is the result, otherwise the loop starts
\* with accumulator 0.
EnterGuaranteedConstFingerprint(t) ==
    /\ Running /\ t \in callers /\ tpc[t] = "call"
    /\ LET k == tkey[t]
       IN  /\ computations' = [computations EXCEPT ![k] = @ + 1]
           /\ dangled' = [dangled EXCEPT ![k] = @ \/ ~alive]
           /\ \E fingerprint_in_metadata \in ReadMetadataFingerprint :
                  IF fingerprint_in_metadata = UnmappedString
                  THEN /\ tpc' = [tpc EXCEPT ![t] = "crashed"]
                       /\ UNCHANGED <<tlocal, ti, tacc>>
                  ELSE IF MetadataFingerprintEmpty(fingerprint_in_metadata)
                  THEN /\ tpc' = [tpc EXCEPT ![t] = "loop"]
                       /\ ti' = [ti EXCEPT ![t] = 1]
                       /\ tacc' = [tacc EXCEPT ![t] = 0]
                       /\ UNCHANGED tlocal
                  ELSE /\ tpc' = [tpc EXCEPT ![t] = "store"]
                       /\ tlocal' = [tlocal EXCEPT ![t] = fingerprint_in_metadata]
                       /\ UNCHANGED <<ti, tacc>>
    /\ UNCHANGED <<fingerprint, hashLog, started, returns, raced, tkey>>
    /\ UNCHANGED threadUnchanged

\* Lines 32-37, one iteration: the tensor at guaranteed_constants[i] is read
\* and folded into the accumulator by one call of the rolling hash.
HashConstant(t) ==
    /\ Running /\ t \in callers /\ tpc[t] = "loop"
    /\ ti[t] <= frame[tkey[t]].guaranteed_constants_size
    /\ LET k == tkey[t]
       IN  /\ dangled' = [dangled EXCEPT ![k] = @ \/ ~alive]
           /\ \E data \in ReadConstant(k, ti[t]) :
                  IF data = Unmapped
                  THEN /\ tpc' = [tpc EXCEPT ![t] = "crashed"]
                       /\ UNCHANGED <<hashLog, ti, tacc>>
                  ELSE /\ hashLog' = [hashLog EXCEPT ![k] =
                                         Append(@, [seed |-> tacc[t], data |-> data])]
                       /\ tacc' = [tacc EXCEPT ![t] =
                                      TpuCompile_CreateGuaranteedConstFingerprint(@, data)]
                       /\ ti' = [ti EXCEPT ![t] = @ + 1]
                       /\ UNCHANGED tpc
    /\ UNCHANGED <<fingerprint, computations, started, returns, raced, tkey, tlocal>>
    /\ UNCHANGED threadUnchanged

\* Line 38: after the loop the accumulator is rendered by std::to_string; the
\* locals of GuaranteedConstFingerprint end with it.
RenderFingerprint(t) ==
    /\ Running /\ t \in callers /\ tpc[t] = "loop"
    /\ ti[t] > frame[tkey[t]].guaranteed_constants_size
    /\ tlocal' = [tlocal EXCEPT ![t] = DecimalString(tacc[t])]
    /\ ti' = [ti EXCEPT ![t] = 1]
    /\ tacc' = [tacc EXCEPT ![t] = 0]
    /\ tpc' = [tpc EXCEPT ![t] = "store"]
    /\ UNCHANGED <<fingerprint, hashLog, computations, started, returns, raced, tkey,
                   dangled>>
    /\ UNCHANGED threadUnchanged

\* The result is returned but never stored in the captured string.
StoreDropped(t) ==
    /\ Running /\ t \in callers /\ tpc[t] = "store"
    /\ tpc' = [tpc EXCEPT ![t] = "ret"]
    /\ UNCHANGED <<fingerprint, raced, hashLog, computations, started, returns, tkey,
                   tlocal, ti, tacc, dangled>>
    /\ UNCHANGED threadUnchanged

\* Line 147: the assignment to the captured `fingerprint`.
Store(t) ==
    /\ Running /\ t \in callers /\ tpc[t] = "store"
    /\ LET k == tkey[t]
       IN  /\ fingerprint' = [fingerprint EXCEPT ![k] = tlocal[t]]
           /\ raced' = [raced EXCEPT ![k] = @ \/ OtherInFlight(t, k)]
    /\ tpc' = [tpc EXCEPT ![t] = "ret"]
    /\ UNCHANGED <<hashLog, computations, started, returns, tkey, tlocal, ti, tacc,
                   dangled>>
    /\ UNCHANGED threadUnchanged

\* Line 151: a copy of `fingerprint` is returned.
ReturnFingerprint(t) ==
    /\ Running /\ t \in callers /\ tpc[t] = "ret"
    /\ LET k == tkey[t]
       IN  \E v \in (IF raced[k] THEN {fingerprint[k], Torn} ELSE {fingerprint[k]}) :
               returns' = [returns EXCEPT ![k] = Append(@, v)]
    /\ tpc' = [tpc EXCEPT ![t] = "idle"]
    /\ tlocal' = [tlocal EXCEPT ![t] = ""]
    /\ UNCHANGED <<fingerprint, hashLog, computations, started, raced, tkey, ti, tacc,
                   dangled>>
    /\ UNCHANGED threadUnchanged

(***************************************************************************)
(* Specifications of the key machine: one caller thread (the calls are     *)
(* sequential), and two caller threads (the callbacks may interleave).     *)
(***************************************************************************)
Init == MachineInit({Main}, ValidInputs) /\ PureIdle

InitConcurrent == MachineInit(Threads, CallbackInputs) /\ PureIdle

Next ==
    \/ CallRaw
    \/ CallList
    \/ \E f \in Forms : EncodePrefixes(f)
    \/ \E f \in Forms : CallNative(f)
    \/ \E f \in Forms : CopyStrings(f)
    \/ \E f \in Forms : AttachFingerprint(f)
    \/ \E f \in Forms : ReturnKey(f)
    \/ DestroyInputs
    \/ \E t \in Threads, k \in Forms : CheckEmpty(t, k)
    \/ \E t \in Threads : EnterGuaranteedConstFingerprint(t)
    \/ \E t \in Threads : HashConstant(t)
    \/ \E t \in Threads : RenderFingerprint(t)
    \/ \E t \in Threads : Store(t)
    \/ \E t \in Threads : ReturnFingerprint(t)

Spec == Init /\ [][Next]_vars

\* Two threads, with metadata and the constants kept alive throughout.
NextConcurrent ==
    \/ CallRaw
    \/ CallList
    \/ \E f \in Forms : EncodePrefixes(f)
    \/ \E f \in Forms : CallNative(f)
    \/ \E f \in Forms : CopyStrings(f)
    \/ \E f \in Forms : AttachFingerprint(f)
    \/ \E f \in Forms : ReturnKey(f)
    \/ \E t \in Threads, k \in Forms : CheckEmpty(t, k)
    \/ \E t \in Threads : EnterGuaranteedConstFingerprint(t)
    \/ \E t \in Threads : HashConstant(t)
    \/ \E t \in Threads : RenderFingerprint(t)
    \/ \E t \in Threads : Store(t)
    \/ \E t \in Threads : ReturnFingerprint(t)

SpecConcurrent == InitConcurrent /\ [][NextConcurrent]_vars

(***************************************************************************)
(* Specifications of the two encoders as pure functions: the inputs are    *)
(* drawn by the initial predicate, the action applies the encoder to both. *)
(***************************************************************************)
MachineIdle ==
    /\ in = CHOOSE i \in ValidInputs : i.guaranteed_constants = <<>>
    /\ cpc = [f \in Forms |-> "start"]
    /\ frame = [f \in Forms |-> NoFrame]
    /\ nativeArgs = [f \in Forms |-> NoProperty]
    /\ buffers = [f \in Forms |-> "none"]
    /\ destroyCalls = [f \in Forms |-> 0]
    /\ key = [f \in Forms |-> EmptyKey]
    /\ fingerprint = [f \in Forms |-> ""]
    /\ hashLog = [f \in Forms |-> <<>>]
    /\ computations = [f \in Forms |-> 0]
    /\ started = [f \in Forms |-> 0]
    /\ returns = [f \in Forms |-> <<>>]
    /\ raced = [f \in Forms |-> FALSE]
    /\ callers = {}
    /\ tpc = [t \in Threads |-> "idle"]
    /\ tkey = [t \in Threads |-> "raw"]
    /\ tlocal = [t \in Threads |-> ""]
    /\ ti = [t \in Threads |-> 1]
    /\ tacc = [t \in Threads |-> 0]
    /\ alive = TRUE
    /\ dangled = [f \in Forms |-> FALSE]

DimSizes == {1, 2, 12}

\* Shape sequences whose number of shapes plus number of dimensions is at most n.
RECURSIVE ShapeSeqs(_)
ShapeSeqs(n) ==
    IF n = 0 THEN {<<>>}
    ELSE LET smaller == ShapeSeqs(n - 1)
         IN  smaller
             \cup {Append(s, <<>>) : s \in smaller}
             \cup {[s EXCEPT ![Len(s)] = Append(@, d)] :
                       s \in {x \in smaller : x # <<>>}, d \in DimSizes}

InitShape ==
    /\ MachineIdle
    /\ argA \in ShapeSeqs(MaxShapeWeight)
    /\ argB \in ShapeSeqs(MaxShapeWeight)
    /\ outA = NotYet /\ outB = NotYet

EncodeShapes ==
    /\ outA = NotYet
    /\ outA' = CreateShapePrefix(argA)
    /\ outB' = CreateShapePrefix(argB)
    /\ UNCHANGED <<argA, argB>>
    /\ UNCHANGED machineVars

NextShape == EncodeShapes

SpecShape == InitShape /\ [][NextShape]_vars

DTypes == {1, 10}

StaticShapes ==
    {[has_shape |-> FALSE, shape |-> <<>>]}
    \cup {[has_shape |-> TRUE, shape |-> d] : d \in {<<>>, <<-1>>, <<1, 2>>}}

Args ==
    { [is_same_data_across_replicas |-> s, enable_xla_sharding |-> e,
       unrestricted_layout |-> u, dtype |-> t, has_shape |-> sh.has_shape,
       shape |-> sh.shape] :
      s \in BOOLEAN, e \in EnableXlaSharding, u \in BOOLEAN, t \in DTypes,
      sh \in StaticShapes }

\* The arguments that differ from arg in exactly one field (the optional
\* static shape, present or absent with its dimensions, is one field).
OneFieldVariants(arg) ==
    ( {[arg EXCEPT !.is_same_data_across_replicas = ~@]}
      \cup {[arg EXCEPT !.enable_xla_sharding = e] : e \in EnableXlaSharding}
      \cup {[arg EXCEPT !.unrestricted_layout = ~@]}
      \cup {[arg EXCEPT !.dtype = t] : t \in DTypes}
      \cup {[arg EXCEPT !.has_shape = sh.has_shape, !.shape = sh.shape] :
                sh \in StaticShapes} )
    \ {arg}

InitConfig ==
    /\ MachineIdle
    /\ argA \in SeqsUpTo(Args, MaxArgs) \ {<<>>}
    /\ \E i \in 1..Len(argA) :
           \E v \in OneFieldVariants(argA[i]) : argB = [argA EXCEPT ![i] = v]
    /\ outA = NotYet /\ outB = NotYet

EncodeConfigs ==
    /\ outA = NotYet
    /\ outA' = CreateConfigPrefix(argA)
    /\ outB' = CreateConfigPrefix(argB)
    /\ UNCHANGED <<argA, argB>>
    /\ UNCHANGED machineVars

NextConfig == EncodeConfigs

SpecConfig == InitConfig /\ [][NextConfig]_vars

(***************************************************************************)
(* Properties.                                                             *)
(***************************************************************************)
AllEqual(seq) == \A i, j \in 1..Len(seq) : seq[i] = seq[j]

FingerprintInMetadata == in.metadata.guaranteed_const_fingerprint

\* C1, as stated: two guaranteed_const_fingerprint() calls on a key built with
\* a non-empty constants sequence return the same string, and the rolling hash
\* is invoked exactly once in total across both calls.
C1_HashInvokedOnceInTotal ==
    \A k \in Forms :
        (in.guaranteed_constants # <<>> /\ Len(returns[k]) >= 2)
            => (returns[k][1] = returns[k][2] /\ Len(hashLog[k]) = 1)

\* C1, amended: the calls on one key return the same string, and across all
\* of them GuaranteedConstFingerprint is evaluated once, so the rolling hash
\* is invoked exactly once per constant in total, and not at all when the
\* metadata carries a precomputed fingerprint (metadata and constants being
\* alive when they are read, as lines 138-141 require).
C1_Memoized ==
    \A k \in Forms :
        (in.guaranteed_constants # <<>> /\ Len(returns[k]) >= 2)
            => /\ AllEqual(returns[k])
               /\ computations[k] = 1
               /\ ~dangled[k] =>
                      Len(hashLog[k]) = IF FingerprintInMetadata = ""
                                        THEN Len(in.guaranteed_constants)
                                        ELSE 0

C1_Witness ==
    \E k \in Forms :
        /\ Len(returns[k]) >= 2 /\ ~dangled[k]
        /\ Len(in.guaranteed_constants) >= 2
        /\ FingerprintInMetadata = ""
        /\ Len(hashLog[k]) = Len(in.guaranteed_constants)

\* C2: with a non-empty precomputed fingerprint in the metadata (alive when
\* the callback reads it), every call returns that string verbatim and the
\* rolling hash is never invoked.
C2_ShortCircuit ==
    FingerprintInMetadata # ""
        => \A k \in Forms :
               ~dangled[k] =>
                   /\ hashLog[k] = <<>>
                   /\ \A i \in 1..Len(returns[k]) : returns[k][i] = FingerprintInMetadata

C2_Witness ==
    /\ FingerprintInMetadata = "abc123"
    /\ in.guaranteed_constants = <<2, 1>>
    /\ \E k \in Forms : returns[k] = <<"abc123", "abc123">> /\ ~dangled[k]

\* C3: the fingerprint is computed lazily: nothing is hashed and
\* GuaranteedConstFingerprint is not evaluated before the first callback call
\* on the key, it is evaluated by that first call, and never a second time.
C3_Lazy ==
    \A k \in Forms :
        /\ started[k] = 0 => (computations[k] = 0 /\ hashLog[k] = <<>>)
        /\ computations[k] <= 1
        /\ Len(returns[k]) >= 1 => computations[k] = 1

C3_Witness ==
    \E k1, k2 \in Forms :
        /\ FingerprintInMetadata = "" /\ in.guaranteed_constants # <<>>
        /\ cpc[k1] = "returned" /\ key[k1].guaranteed_const_fingerprint = "attached"
        /\ started[k1] = 0 /\ hashLog[k1] = <<>>
        /\ Len(returns[k2]) = 2 /\ computations[k2] = 1

\* C4, as stated: when several threads call the callback of one key
\* concurrently, the fingerprint is computed exactly once and every caller
\* observes the same result, under every interleaving.
C4_ComputedOnceUnderConcurrency ==
    \A k \in Forms :
        (in.guaranteed_constants # <<>> /\ FingerprintInMetadata = "" /\ ~dangled[k])
            => /\ computations[k] <= 1
               /\ returns[k] # <<>> => computations[k] = 1
               /\ AllEqual(returns[k])

\* Two argument sequences of the same length that differ in exactly one
\* field of exactly one argument.
FieldsOf(arg) ==
    <<arg.is_same_data_across_replicas, arg.enable_xla_sharding,
      arg.unrestricted_layout, arg.dtype, <<arg.has_shape, arg.shape>>>>

DifferInOneField(a, b) ==
    /\ Len(a) = Len(b)
    /\ Cardinality({i \in 1..Len(a) : a[i] # b[i]}) = 1
    /\ \A i \in 1..Len(a) :
           a[i] # b[i] =>
               Cardinality({n \in 1..5 : FieldsOf(a[i])[n] # FieldsOf(b[i])[n]}) = 1

\* C5, as stated: argument-config sequences that differ in one field of one
\* argument (sharing, sharding among its three states, layout, dtype or
\* static shape) are encoded to different strings.
C5_SingleFieldInjective ==
    (outA # NotYet /\ DifferInOneField(argA, argB)) => outA # outB

\* Positionally the same dimension sizes in the same order.
SameShapes(a, b) ==
    /\ Len(a) = Len(b)
    /\ \A i \in 1..Len(a) :
           /\ Len(a[i]) = Len(b[i])
           /\ \A j \in 1..Len(a[i]) : a[i][j] = b[i][j]

\* C6: CreateShapePrefix maps two shape sequences to the same string if and
\* only if they have the same length and the same dimensions position by
\* position; the empty sequence is encoded as the empty string.
C6_ShapeInjective ==
    outA # NotYet
        => /\ (outA = outB) <=> SameShapes(argA, argB)
           /\ argA = <<>> => outA = ""

C6_Witness ==
    /\ argA = << <<1>>, <<2>> >> /\ argB = << <<1, 2>> >>
    /\ outA = "1,;2,;" /\ outB = "1,2,;"

\* C7: for the same logical constant sequence the OpInputList overload and
\* the pointer+count form hand the same property record to the native
\* primitive and return keys with the same prefix and has_guaranteed_const.
C7_OverloadsAgree ==
    (cpc["raw"] = "returned" /\ cpc["list"] = "returned")
        => /\ key["raw"].prefix = key["list"].prefix
           /\ key["raw"].has_guaranteed_const = key["list"].has_guaranteed_const
           /\ nativeArgs["raw"] = nativeArgs["list"]

C7_Witness ==
    /\ cpc["raw"] = "returned" /\ cpc["list"] = "returned"
    /\ in.guaranteed_constants # <<>>
    /\ key["list"].has_guaranteed_const
    /\ frame["list"].guaranteed_constants = "array"

\* C8: a key returned for an empty constants sequence has has_guaranteed_const
\* false, no callback, a session_handle left at its default, and nothing is
\* ever hashed for it; for a non-empty sequence has_guaranteed_const is true,
\* session_handle is the metadata's and the callback is attached.
C8_ConstantsDecideTheKey ==
    \A f \in Forms :
        /\ in.guaranteed_constants = <<>> => hashLog[f] = <<>>
        /\ cpc[f] = "returned" =>
               IF in.guaranteed_constants = <<>>
               THEN /\ key[f].has_guaranteed_const = FALSE
                    /\ key[f].guaranteed_const_fingerprint = "unset"
                    /\ key[f].session_handle = ""
               ELSE /\ key[f].has_guaranteed_const = TRUE
                    /\ key[f].session_handle = in.metadata.session_handle
                    /\ key[f].guaranteed_const_fingerprint = "attached"

C8_Witness ==
    /\ in.guaranteed_constants = <<>> /\ ~in.raw_pointer_null
    /\ in.metadata.session_handle = "session_1"
    /\ cpc["raw"] = "returned" /\ key["raw"].session_handle = ""
    /\ cpc["list"] = "returned" /\ ~key["list"].has_guaranteed_const

\* C9: the buffers returned by the native primitive are destroyed exactly
\* once per call: never before prefix and debug_string have been copied into
\* the key, and no later than the return of CreateCompilationCacheKey.
C9_BuffersReleasedOnce ==
    \A f \in Forms :
        /\ destroyCalls[f] <= 1
        /\ cpc[f] = "returned" => (destroyCalls[f] = 1 /\ buffers[f] = "released")
        /\ buffers[f] = "released" =>
               /\ key[f].prefix = frame[f].result.key
               /\ key[f].debug_string = frame[f].result.debug_string
        /\ destroyCalls[f] = 1 <=> buffers[f] = "released"

C9_Witness ==
    \E f \in Forms :
        /\ cpc[f] = "returned" /\ destroyCalls[f] = 1 /\ buffers[f] = "released"
        /\ key[f].prefix = TpuCompile_CreateCompilationCacheKey(nativeArgs[f]).key

\* The left fold acc_0 = 0, acc_{i+1} = RollingHash(acc_i, constant i).
RECURSIVE LeftFold(_)
LeftFold(constants) ==
    IF constants = <<>> THEN 0
    ELSE TpuCompile_CreateGuaranteedConstFingerprint(
             LeftFold(SubSeq(constants, 1, Len(constants) - 1)),
             constants[Len(constants)])

\* C10, as stated: without a precomputed fingerprint the fingerprint a key
\* returns is the decimal rendering of the left fold of the rolling hash over
\* the constants, seeded with 0, with exactly one invocation per constant, in
\* sequence order (metadata and constants being alive when they are read).
C10_FingerprintIsLeftFold ==
    \A k \in Forms :
        (FingerprintInMetadata = "" /\ ~dangled[k] /\ returns[k] # <<>>)
            => /\ Len(hashLog[k]) = Len(in.guaranteed_constants)
               /\ \A i \in 1..Len(hashLog[k]) :
                      /\ hashLog[k][i].data = in.guaranteed_constants[i]
                      /\ hashLog[k][i].seed =
                             LeftFold(SubSeq(in.guaranteed_constants, 1, i - 1))
               /\ \A i \in 1..Len(returns[k]) :
                      returns[k][i] = DecimalString(LeftFold(in.guaranteed_constants))

\* The same for the key of the pointer+count form alone.
C10_RawFormIsLeftFold ==
    (FingerprintInMetadata = "" /\ ~dangled["raw"] /\ returns["raw"] # <<>>)
        => /\ Len(hashLog["raw"]) = Len(in.guaranteed_constants)
           /\ \A i \in 1..Len(hashLog["raw"]) :
                  /\ hashLog["raw"][i].data = in.guaranteed_constants[i]
                  /\ hashLog["raw"][i].seed =
                         LeftFold(SubSeq(in.guaranteed_constants, 1, i - 1))
           /\ \A i \in 1..Len(returns["raw"]) :
                  returns["raw"][i] = DecimalString(LeftFold(in.guaranteed_constants))

====
